---- MODULE Spec2Model ----
(***************************************************************************)
(* Blog listing of the CMR website: BlogMain.get_context and               *)
(* BlogMain.tag_archive (src/blog/models.py) with the pagination helpers   *)
(* get_paginator, get_paginated_posts and get_paginator_items, on top of   *)
(* django.core.paginator.Paginator and Python's int().                     *)
(*                                                                         *)
(* Beside it, each under a specification of its own: UserApprovalTask      *)
(* (src/base/models.py, SpecWorkflow), the section landing pages           *)
(* (src/sections/models.py, SpecSections), LocationPage.is_open            *)
(* (src/locations/models.py, SpecLocations) and the management commands    *)
(* reset_admin_password and reset_dev_env (SpecCommands).                  *)
(*                                                                         *)
(* A page parameter is a sequence of one-character strings, or absent.     *)
(* A raised Python exception is a result record with ok = FALSE and the    *)
(* exception's name in err.                                                *)
(***************************************************************************)
EXTENDS Integers, Sequences, FiniteSets, TLC

\* ------------------------------------------------------------ constants
PAGINATION_MIN_PAGES == 7
PAGINATION_BOUNDARY == 3
DefaultMaxRecent == 6

\* --------------------------------------------------------------- bounds
MaxPosts == 11
MaxUntagged == 1
MaxPageSize == 3

\* Values an editor (or a programmatic save, which skips the validators)
\* can store in BlogMain.max_recent.
MaxRecentValues == (-1 .. MaxPageSize) \cup {DefaultMaxRecent}

\* The query string's page parameter: absent, or the characters given.
Absent == [present |-> FALSE, value |-> <<>>]
Param(s) == [present |-> TRUE, value |-> s]
PageParams ==
    { Absent, Param(<<>>), Param(<<"a", "b", "c">>), Param(<<"1", ".", "5">>),
      Param(<<"0">>), Param(<<"-", "1">>), Param(<<"9", "9">>),
      Param(<<" ", "3", " ">>), Param(<<"+", "2">>), Param(<<"1", "_", "0">>),
      Param(<<"1">>), Param(<<"2">>), Param(<<"3">>), Param(<<"4">>),
      Param(<<"5">>), Param(<<"6">>), Param(<<"7">>), Param(<<"8">>),
      Param(<<"9">>), Param(<<"1", "0">>) }

\* The tag slug of a tag_archive request: the route without a slug, the
\* slug of the tag editors use, a slug no Tag has.
NoSlug == "(none)"
TagSlug == "news"
Slugs == {NoSlug, TagSlug, "nosuch"}

VARIABLES all_posts, tagged, max_recent, request, response

\* The approval task (base/models.py): its user, the task state of each page
\* in moderation, and the last call made on the task.
VARIABLES task_user, task_states, moderation

\* A section page (sections/models.py): its live children, newest first, its
\* max_recent and the context of the request being served.
VARIABLES section_pages, section_max_recent, section_context

\* A location page (locations/models.py): its slots, the clock and the
\* outcome of is_open.
VARIABLES operating_hours, now, is_open_result

\* The management commands (base/management/commands): settings.DEBUG, the
\* user table, the schema, the caches and the command being run.
VARIABLES debug, users, migrated, caches, command

blog_vars ==
    <<all_posts, tagged, max_recent, request, response>>
workflow_vars == <<task_user, task_states, moderation>>
section_vars == <<section_pages, section_max_recent, section_context>>
location_vars == <<operating_hours, now, is_open_result>>
command_vars == <<debug, users, migrated, caches, command>>

vars == <<blog_vars, workflow_vars, section_vars, location_vars, command_vars>>

\* ---------------------------------------------------------- Python helpers
Max(a, b) == IF a >= b THEN a ELSE b
Min(a, b) == IF a <= b THEN a ELSE b

Ok(v) == [ok |-> TRUE, err |-> "none", val |-> v]
Raise(e, v) == [ok |-> FALSE, err |-> e, val |-> v]

Digits == {"0", "1", "2", "3", "4", "5", "6", "7", "8", "9"}

DigitVal(c) ==
    CASE c = "0" -> 0 [] c = "1" -> 1 [] c = "2" -> 2 [] c = "3" -> 3
      [] c = "4" -> 4 [] c = "5" -> 5 [] c = "6" -> 6 [] c = "7" -> 7
      [] c = "8" -> 8 [] c = "9" -> 9

RECURSIVE LStrip(_)
LStrip(s) == IF s # <<>> /\ Head(s) = " " THEN LStrip(Tail(s)) ELSE s

RECURSIVE RStrip(_)
RStrip(s) ==
    IF s # <<>> /\ s[Len(s)] = " " THEN RStrip(SubSeq(s, 1, Len(s) - 1)) ELSE s

Unsigned(s) == IF s # <<>> /\ Head(s) \in {"+", "-"} THEN Tail(s) ELSE s

\* int() accepts decimal digits, with single underscores between digits.
ValidDigits(d) ==
    /\ d # <<>>
    /\ \A i \in 1 .. Len(d) :
          \/ d[i] \in Digits
          \/ /\ d[i] = "_"
             /\ 1 < i
             /\ i < Len(d)
             /\ d[i - 1] \in Digits
             /\ d[i + 1] \in Digits

RECURSIVE DigitsValue(_, _)
DigitsValue(d, acc) ==
    IF d = <<>> THEN acc
    ELSE IF Head(d) = "_" THEN DigitsValue(Tail(d), acc)
    ELSE DigitsValue(Tail(d), acc * 10 + DigitVal(Head(d)))

\* int(x) for x = request.GET.get('page'): None raises TypeError, a string
\* that is no integer literal raises ValueError.
PyInt(x) ==
    IF ~x.present THEN Raise("TypeError", 0)
    ELSE LET s == RStrip(LStrip(x.value))
             body == Unsigned(s)
         IN  IF ValidDigits(body)
             THEN Ok(IF Head(s) = "-" THEN 0 - DigitsValue(body, 0)
                                      ELSE DigitsValue(body, 0))
             ELSE Raise("ValueError", 0)

\* An int passed where a page number is expected (paginator.page(1)).
IntArg(n) == Ok(n)

\* Mutant of PySlice: the upper bound taken as inclusive.
PySlice_Inclusive(list, bottom, top) ==
    LET n == Len(list)
        lo == Min(bottom, n)
        hi == IF top < 0 THEN Max(top + n, 0) ELSE Min(top + 1, n)
    IN  IF hi <= lo THEN <<>> ELSE SubSeq(list, lo + 1, hi)

\* list[bottom:top] of Python, bottom >= 0.
PySlice(list, bottom, top) ==
    LET n == Len(list)
        lo == Min(bottom, n)
        hi == IF top < 0 THEN Max(top + n, 0) ELSE Min(top, n)
    IN  IF hi <= lo THEN <<>> ELSE SubSeq(list, lo + 1, hi)

\* range(a, b) of Python as a list.
PyRange(a, b) == IF b <= a THEN <<>> ELSE [i \in 1 .. (b - a) |-> a + i - 1]

\* ------------------------------------------- django.core.paginator.Paginator
\* Paginator(object_list, per_page), orphans = 0, allow_empty_first_page.
\* is_queryset: the object list is a QuerySet (negative slice bounds raise)
\* and not a plain list (negative slice bounds count from the end).
Paginator(object_list, is_queryset, per_page) ==
    [object_list |-> object_list, is_queryset |-> is_queryset,
     per_page |-> per_page]

Count(p) == Len(p.object_list)

\* Paginator.num_pages = ceil(max(1, count) / per_page), per_page # 0.
NumPages(p) ==
    LET hits == Max(1, Count(p))
    IN  IF p.per_page > 0
        THEN (hits + p.per_page - 1) \div p.per_page
        ELSE 0 - (hits \div (0 - p.per_page))

\* The attribute access paginator.num_pages: dividing by per_page = 0 raises.
NumPagesAttr(p) ==
    IF p.per_page = 0 THEN Raise("ZeroDivisionError", 0) ELSE Ok(NumPages(p))

\* Paginator.validate_number(number), number already through int().
\* first_page_exempt: Django releases that let page 1 through although it is
\* beyond num_pages ("number == 1 and allow_empty_first_page"); later
\* releases raise EmptyPage there. The two differ only for per_page < 0.
ValidateNumber(p, number, first_page_exempt) ==
    IF ~number.ok THEN Raise("PageNotAnInteger", 0)
    ELSE IF number.val < 1 THEN Raise("EmptyPage", 0)
    ELSE IF ~NumPagesAttr(p).ok THEN NumPagesAttr(p)
    ELSE IF number.val > NumPages(p) /\ ~(first_page_exempt /\ number.val = 1)
         THEN Raise("EmptyPage", 0)
    ELSE Ok(number.val)

NoPage == [number |-> 0, object_list |-> <<>>]

\* Mutant of PaginatorPage: the page number taken as 0-based offset.
PaginatorPage_ZeroBased(p, number, first_page_exempt) ==
    LET v == ValidateNumber(p, number, first_page_exempt)
        bottom == v.val * p.per_page
        top0 == bottom + p.per_page
        top == IF top0 >= Count(p) THEN Count(p) ELSE top0
    IN  IF ~v.ok THEN Raise(v.err, NoPage)
        ELSE Ok([number |-> v.val,
                 object_list |-> PySlice(p.object_list, bottom, top)])

\* Paginator.page(number): the slice object_list[bottom:top].
PaginatorPage(p, number, first_page_exempt) ==
    LET v == ValidateNumber(p, number, first_page_exempt)
        bottom == (v.val - 1) * p.per_page
        top0 == bottom + p.per_page
        top == IF top0 >= Count(p) THEN Count(p) ELSE top0
    IN  IF ~v.ok THEN Raise(v.err, NoPage)
        ELSE IF p.is_queryset /\ (bottom < 0 \/ top < 0)
             THEN Raise("ValueError", NoPage)
        ELSE Ok([number |-> v.val,
                 object_list |-> PySlice(p.object_list, bottom, top)])

\* ------------------------------------------------------------ BlogMain
\* get_published_posts(tag): the live posts, newest first, with the tag.
RECURSIVE FilterTagged(_, _)
FilterTagged(posts, tags) ==
    IF posts = <<>> THEN <<>>
    ELSE IF Head(posts) \in tags
         THEN <<Head(posts)>> \o FilterTagged(Tail(posts), tags)
         ELSE FilterTagged(Tail(posts), tags)

get_published_posts(posts, tags, with_tag) ==
    IF with_tag THEN FilterTagged(posts, tags) ELSE posts

\* Mutant of get_paginator: the promo is counted into the page size.
get_paginator_PromoInSize(posts, per_page, all) ==
    IF Len(posts) > 1 /\ ~all
    THEN Paginator(Tail(posts), FALSE, per_page + 1)
    ELSE Paginator(posts, TRUE, per_page + 1)

\* get_paginator(all_posts, all): all_posts[1:] is a list (the QuerySet has
\* been evaluated by len()), all_posts itself is the QuerySet.
get_paginator(posts, per_page, all) ==
    IF Len(posts) > 1 /\ ~all
    THEN Paginator(Tail(posts), FALSE, per_page)
    ELSE Paginator(posts, TRUE, per_page)

\* Mutant of LastPage: an out-of-range page falls back to the first page.
LastPage_First(p, first_page_exempt) ==
    PaginatorPage(p, IntArg(1), first_page_exempt)

\* The handler of EmptyPage: paginator.page(paginator.num_pages).
LastPage(p, first_page_exempt) ==
    IF ~NumPagesAttr(p).ok THEN Raise(NumPagesAttr(p).err, NoPage)
    ELSE PaginatorPage(p, IntArg(NumPages(p)), first_page_exempt)

\* Mutant of get_paginated_posts: PageNotAnInteger handled like EmptyPage.
get_paginated_posts_OneHandler(p, req, first_page_exempt) ==
    LET posts == PaginatorPage(p, PyInt(req), first_page_exempt)
    IN  IF posts.err \in {"PageNotAnInteger", "EmptyPage"}
        THEN LastPage(p, first_page_exempt)
        ELSE posts

get_paginated_posts(p, req, first_page_exempt) ==
    LET posts == PaginatorPage(p, PyInt(req), first_page_exempt)
    IN  IF posts.err = "PageNotAnInteger"
        THEN PaginatorPage(p, IntArg(1), first_page_exempt)
        ELSE IF posts.err = "EmptyPage" THEN LastPage(p, first_page_exempt)
        ELSE posts

\* max_pages = max(PAGINATION_MIN_PAGES, int(site_settings.pagination_max_pages))
MaxPages(site_max) == Max(PAGINATION_MIN_PAGES, site_max)

\* "Can we comfortably display all items?"
FitsAll(num_pages, max_pages) == num_pages <= max_pages

\* page = min(max(1, int(page)), paginator.num_pages)
ClampPage(n, num_pages) == Min(Max(1, n), num_pages)

\* The final else of the loop: the ellipsis placeholder 0, once per gap.
SkipPage(st) ==
    [items |-> IF st.ellipse THEN Append(st.items, 0) ELSE st.items,
     ellipse |-> FALSE]

ShowPage(st, i) == [items |-> Append(st.items, i), ellipse |-> st.ellipse]

ShowCurrent(st, i) == [items |-> Append(st.items, i), ellipse |-> TRUE]

\* One iteration of the loop over range(1, num_pages + 1).
PagerStep(st, i, page, num_pages) ==
    LET lower_boundary == PAGINATION_BOUNDARY
        upper_boundary == num_pages - PAGINATION_BOUNDARY + 1
    IN  IF i <= lower_boundary THEN ShowPage(st, i)
        ELSE IF i = lower_boundary + 1 /\ i = page THEN ShowPage(st, i)
        ELSE IF i = upper_boundary - 1 /\ i = page THEN ShowPage(st, i)
        ELSE IF i >= upper_boundary THEN ShowPage(st, i)
        ELSE IF i = page THEN ShowCurrent(st, i)
        ELSE SkipPage(st)

RECURSIVE PagerLoop(_, _, _, _)
PagerLoop(st, i, page, num_pages) ==
    IF i > num_pages THEN st.items
    ELSE PagerLoop(PagerStep(st, i, page, num_pages), i + 1, page, num_pages)

\* SiteSettings.for_request(request): the fields the model declares, with
\* their defaults (no page chosen, no RSS link).
SiteSettings ==
    [title_suffix |-> "Carolina Model Railroaders", terms_page |-> "None",
     privacy_page |-> "None", rss_link |-> ""]

\* obj.name of Python: the value, or AttributeError without the attribute.
GetAttr(obj, name) ==
    IF name \in DOMAIN obj THEN Ok(obj[name])
    ELSE Raise("AttributeError", 0)

\* get_paginator_items reads site_settings.pagination_max_pages first;
\* SiteSettings declares no such field, so the lines after it are not
\* reached.
get_paginator_items(p, req) ==
    LET setting == GetAttr(SiteSettings, "pagination_max_pages")
        max_pages == MaxPages(setting.val)
        page == PyInt(req)
    IN  IF ~setting.ok THEN Raise(setting.err, <<>>)
        ELSE IF ~NumPagesAttr(p).ok THEN Raise(NumPagesAttr(p).err, <<>>)
        ELSE IF FitsAll(NumPages(p), max_pages)
             THEN Ok(PyRange(1, NumPages(p) + 1))
        ELSE IF ~page.ok THEN Raise(page.err, <<>>)
        ELSE Ok(PagerLoop([items |-> <<>>, ellipse |-> TRUE], 1,
                          ClampPage(page.val, NumPages(p)), NumPages(p)))

\* ------------------------------------------------------------ the views
NoRequest == [view |-> "none", page |-> Absent, slug |-> NoSlug]

Idle ==
    [status |-> "idle", error |-> "none", pager |-> Paginator(<<>>, TRUE, 1),
     posts |-> NoPage, paginator |-> <<>>, show_promo |-> FALSE, promo |-> 0,
     message |-> FALSE]

\* Tag.objects.get(slug=tag) finds a Tag once a post has been given it.
TagExists(slug) == slug = TagSlug /\ tagged # {}

\* The context handed to the template, or the exception that ended the view
\* (context['posts'] is assigned before get_paginator_items is called).
Render(p, req, show_promo, promo, first_page_exempt) ==
    LET posts == get_paginated_posts(p, req, first_page_exempt)
        items == get_paginator_items(p, req)
        ctx == [Idle EXCEPT !.pager = p, !.show_promo = show_promo,
                            !.promo = promo]
    IN  IF ~posts.ok THEN [ctx EXCEPT !.status = "error", !.error = posts.err]
        ELSE IF ~items.ok
             THEN [ctx EXCEPT !.status = "error", !.error = items.err,
                              !.posts = posts.val]
        ELSE [ctx EXCEPT !.status = "rendered", !.posts = posts.val,
                         !.paginator = items.val]

\* BlogMain.get_context: the newest post is the promo, the rest is paginated.
get_context(req, first_page_exempt) ==
    LET posts == get_published_posts(all_posts, tagged, FALSE)
        show_promo == Len(posts) >= 1
        promo == IF posts = <<>> THEN 0 ELSE Head(posts)
        p == get_paginator(posts, max_recent, FALSE)
    IN  Render(p, req, show_promo, promo, first_page_exempt)

\* BlogMain.tag_archive: redirect without the Tag, else all tagged posts.
tag_archive(req, slug, first_page_exempt) ==
    IF ~TagExists(slug)
    THEN [Idle EXCEPT !.status = "redirect", !.message = (slug # NoSlug)]
    ELSE LET posts == get_published_posts(all_posts, tagged, TRUE)
             p == get_paginator(posts, max_recent, TRUE)
         IN  Render(p, req, FALSE, 0, first_page_exempt)

\* -------------------------------------------------------------- actions
Untagged == {i \in 1 .. Len(all_posts) : i \notin tagged}

\* ------------------------------------------- the rest of the site at start
Users == {"alice", "bob"}
AnonymousUser == "anonymous"
\* UserApprovalTask.user is null until set (and again once the user is deleted).
None == "None"

WorkflowPages == {"about", "contact"}
\* No workflow has been started on the page.
NoTaskState ==
    [task |-> "none", status |-> "none", finished_by |-> None,
     workflow |-> "none"]
NoCall == [call |-> "none"]

\* No section page is being served. A context holds the promo, the slice of
\* the children it hands to the template (rows bottom..top, or from bottom on
\* when open) and, once the template has iterated it, the rows read then and
\* the recent_posts they gave.
NoContext ==
    [view |-> "none", max_recent |-> 0, show_promo |-> FALSE, promo |-> 0,
     bottom |-> 0, top |-> 0, open |-> TRUE,
     evaluated |-> FALSE, read |-> <<>>, recent_posts |-> <<>>]

Days == {"MON", "TUE"}
NotCalled == [called |-> FALSE, ok |-> TRUE, err |-> "none", val |-> FALSE]

Usernames == {"admin", "editor"}
\* No row of the user table has the username.
NoUser == [exists |-> FALSE, password |-> <<>>, email |-> "none"]
\* No management command is running: the command, the step it is at, the
\* exception that ended it, the commands it has called and the user table
\* it started from.
NoCommand ==
    [name |-> "none", pc |-> "none", error |-> "none", log |-> <<>>,
     before |-> [u \in Usernames |-> NoUser]]

SiteInit ==
    /\ task_user = None
    /\ task_states = [p \in WorkflowPages |-> NoTaskState]
    /\ moderation = NoCall
    /\ section_pages = <<>>
    /\ section_max_recent = DefaultMaxRecent
    /\ section_context = NoContext
    /\ operating_hours = {}
    /\ now = [day |-> "MON", time |-> 1]
    /\ is_open_result = NotCalled
    /\ debug = TRUE
    /\ users = [u \in Usernames |-> NoUser]
    /\ migrated = TRUE
    /\ caches = {}
    /\ command = NoCommand

not_blog == <<workflow_vars, section_vars, location_vars, command_vars>>

Init ==
    /\ all_posts = <<>>
    /\ tagged = {}
    /\ max_recent = DefaultMaxRecent
    /\ request = NoRequest
    /\ response = Idle
    /\ SiteInit

\* An editor publishes a blog post (the newest comes first), tagged or not.
PublishPost(with_tag) ==
    /\ response.status = "idle"
    /\ Len(all_posts) < MaxPosts
    /\ with_tag \/ Cardinality(Untagged) < MaxUntagged
    /\ all_posts' = <<Len(all_posts) + 1>> \o all_posts
    /\ tagged' = IF with_tag THEN tagged \cup {Len(all_posts) + 1} ELSE tagged
    /\ UNCHANGED <<max_recent, request, response>>
    /\ UNCHANGED not_blog

SetMaxRecent(v) ==
    /\ response.status = "idle"
    /\ v # max_recent
    /\ max_recent' = v
    /\ UNCHANGED <<all_posts, tagged, request, response>>
    /\ UNCHANGED not_blog

ServeGetContext(req, first_page_exempt) ==
    /\ response.status = "idle"
    /\ request' = [view |-> "get_context", page |-> req, slug |-> NoSlug]
    /\ response' = get_context(req, first_page_exempt)
    /\ UNCHANGED <<all_posts, tagged, max_recent>>
    /\ UNCHANGED not_blog

ServeTagArchive(req, slug, first_page_exempt) ==
    /\ response.status = "idle"
    /\ request' = [view |-> "tag_archive", page |-> req, slug |-> slug]
    /\ response' = tag_archive(req, slug, first_page_exempt)
    /\ UNCHANGED <<all_posts, tagged, max_recent>>
    /\ UNCHANGED not_blog

\* The response has been sent: nothing of the request is kept.
Finish ==
    /\ response.status # "idle"
    /\ request' = NoRequest
    /\ response' = Idle
    /\ UNCHANGED <<all_posts, tagged, max_recent>>
    /\ UNCHANGED not_blog

Next ==
    \/ \E t \in BOOLEAN : PublishPost(t)
    \/ \E v \in MaxRecentValues : SetMaxRecent(v)
    \/ \E req \in PageParams, x \in BOOLEAN : ServeGetContext(req, x)
    \/ \E req \in PageParams, slug \in Slugs, x \in BOOLEAN :
          ServeTagArchive(req, slug, x)
    \/ Finish

Spec == Init /\ [][Next]_vars

\* ------------------------------------------------- UserApprovalTask
TaskNames == {"user_approval", "group_approval"}
ActionNames == {"approve", "reject", "cancel", "unlock"}

\* user == self.user: two model instances are equal when they are the same
\* row; AnonymousUser and None are equal to no User.
UserEq(user, assigned) == user \in Users /\ user = assigned

user_can_access_editor(user) == UserEq(user, task_user)

\* Mutant of page_locked_for_user: user == self.user.
page_locked_for_user_Same(user) == UserEq(user, task_user)

page_locked_for_user(user) == ~UserEq(user, task_user)

get_actions(user) ==
    IF UserEq(user, task_user)
    THEN << <<"approve", "Approve", FALSE>>, <<"reject", "Reject", FALSE>>,
            <<"cancel", "Cancel", FALSE>> >>
    ELSE <<>>

\* The pages whose task state is in progress on this task.
get_task_states_user_can_moderate(user) ==
    IF UserEq(user, task_user)
    THEN {p \in WorkflowPages :
            /\ task_states[p].status = "in_progress"
            /\ task_states[p].task = "user_approval"}
    ELSE {}

\* task_state.workflow_state.cancel(user=user): the workflow state and its
\* task state in progress are cancelled.
WorkflowCancel(ts, user) ==
    IF ts.workflow \notin {"in_progress", "needs_changes"}
    THEN Raise("PermissionDenied", ts)
    ELSE Ok([ts EXCEPT
               !.workflow = "cancelled",
               !.status = IF @ = "in_progress" THEN "cancelled" ELSE @,
               !.finished_by =
                   IF ts.status = "in_progress" THEN user ELSE @])

\* super().on_action(...): Task.on_action approves or rejects the task
\* state, which ends the (one task) workflow, and ignores other names.
TaskOnAction(ts, user, action_name) ==
    IF action_name \notin {"approve", "reject"} THEN Ok(ts)
    ELSE IF ts.status # "in_progress" THEN Raise("PermissionDenied", ts)
    ELSE IF action_name = "approve"
         THEN Ok([ts EXCEPT !.status = "approved", !.finished_by = user,
                            !.workflow = "approved"])
         ELSE Ok([ts EXCEPT !.status = "rejected", !.finished_by = user,
                            !.workflow = "needs_changes"])

\* Mutant of on_action: only the assigned user may act.
on_action_AssignedOnly(ts, user, action_name) ==
    IF ~UserEq(user, task_user) THEN Raise("PermissionDenied", ts)
    ELSE IF action_name = "cancel" THEN WorkflowCancel(ts, user)
    ELSE TaskOnAction(ts, user, action_name)

on_action(ts, user, action_name) ==
    IF action_name = "cancel" THEN WorkflowCancel(ts, user)
    ELSE TaskOnAction(ts, user, action_name)

\* The task is given another user, or none (the user was deleted).
AssignUser(a) ==
    /\ a # task_user
    /\ task_user' = a
    /\ moderation' = NoCall
    /\ UNCHANGED task_states
    /\ UNCHANGED <<blog_vars, section_vars, location_vars, command_vars>>

\* A page is submitted for moderation: a task state in progress is created.
StartWorkflow(page, task) ==
    /\ task_states[page].workflow # "in_progress"
    /\ task_states' =
           [task_states EXCEPT ![page] =
               [task |-> task, status |-> "in_progress",
                finished_by |-> None, workflow |-> "in_progress"]]
    /\ moderation' = NoCall
    /\ UNCHANGED task_user
    /\ UNCHANGED <<blog_vars, section_vars, location_vars, command_vars>>

\* The admin asks the task what the user may do with the page.
Inspect(page, user) ==
    /\ moderation' =
           [call |-> "inspect", page |-> page, user |-> user,
            can_access |-> user_can_access_editor(user),
            locked |-> page_locked_for_user(user),
            actions |-> get_actions(user),
            can_moderate |-> get_task_states_user_can_moderate(user)]
    /\ UNCHANGED <<task_user, task_states>>
    /\ UNCHANGED <<blog_vars, section_vars, location_vars, command_vars>>

\* UserApprovalTask.on_action on the task state of a page.
OnAction(page, user, action_name) ==
    /\ task_states[page].task = "user_approval"
    /\ LET r == on_action(task_states[page], user, action_name)
       IN  /\ task_states' = [task_states EXCEPT ![page] = r.val]
           /\ moderation' =
                  [call |-> "on_action", page |-> page, user |-> user,
                   action_name |-> action_name, before |-> task_states[page],
                   ok |-> r.ok, error |-> r.err]
    /\ UNCHANGED task_user
    /\ UNCHANGED <<blog_vars, section_vars, location_vars, command_vars>>

\* Task.on_action on the task state of a page in another kind of task.
BaseOnAction(page, user, action_name) ==
    /\ task_states[page].task = "group_approval"
    /\ LET r == TaskOnAction(task_states[page], user, action_name)
       IN  task_states' = [task_states EXCEPT ![page] = r.val]
    /\ moderation' = NoCall
    /\ UNCHANGED task_user
    /\ UNCHANGED <<blog_vars, section_vars, location_vars, command_vars>>

WorkflowNext ==
    \/ \E a \in Users \cup {None} : AssignUser(a)
    \/ \E page \in WorkflowPages, task \in TaskNames :
          StartWorkflow(page, task)
    \/ \E page \in WorkflowPages, user \in Users \cup {AnonymousUser} :
          Inspect(page, user)
    \/ \E page \in WorkflowPages, user \in Users, a \in ActionNames :
          OnAction(page, user, a)
    \/ \E page \in WorkflowPages, user \in Users, a \in ActionNames :
          BaseOnAction(page, user, a)

SpecWorkflow == Init /\ [][WorkflowNext]_vars

\* ----------------------------------------- SectionMain, SectionSubMain
MaxChildren == 7

\* SectionMain.get_context: the slice of the newest max_recent children, or
\* the query of all of them; the QuerySet is handed on unevaluated.
SectionMain_get_context(recent) ==
    [NoContext EXCEPT
       !.view = "SectionMain", !.max_recent = recent,
       !.bottom = 0, !.top = Max(1, recent), !.open = (recent = 0)]

\* SectionSubMain.get_context: first() reads the newest child now (None
\* without children); the slice of the next max_recent, or of all the
\* others, is handed on unevaluated.
SectionSubMain_get_context(children, recent) ==
    [NoContext EXCEPT
       !.view = "SectionSubMain", !.max_recent = recent,
       !.show_promo = TRUE,
       !.promo = IF children = <<>> THEN 0 ELSE Head(children),
       !.bottom = 1, !.top = Max(2, recent + 1), !.open = (recent = 0)]

\* The template iterates recent_posts: the slice is read from the rows there
\* are at that time.
Evaluate(ctx, children) ==
    [ctx EXCEPT
       !.evaluated = TRUE, !.read = children,
       !.recent_posts =
           IF ctx.open THEN PySlice(children, ctx.bottom, Len(children))
           ELSE PySlice(children, ctx.bottom, ctx.top)]

\* An editor publishes a page under the section (the newest comes first),
\* whatever request is being served.
PublishSectionPage ==
    /\ Len(section_pages) < MaxChildren
    /\ section_pages' = <<Len(section_pages) + 1>> \o section_pages
    /\ UNCHANGED <<section_max_recent, section_context>>
    /\ UNCHANGED <<blog_vars, workflow_vars, location_vars, command_vars>>

SetSectionMaxRecent(v) ==
    /\ v # section_max_recent
    /\ section_max_recent' = v
    /\ UNCHANGED <<section_pages, section_context>>
    /\ UNCHANGED <<blog_vars, workflow_vars, location_vars, command_vars>>

ServeSectionMain ==
    /\ section_context.view = "none"
    /\ section_context' = SectionMain_get_context(section_max_recent)
    /\ UNCHANGED <<section_pages, section_max_recent>>
    /\ UNCHANGED <<blog_vars, workflow_vars, location_vars, command_vars>>

ServeSectionSubMain ==
    /\ section_context.view = "none"
    /\ section_context' =
           SectionSubMain_get_context(section_pages, section_max_recent)
    /\ UNCHANGED <<section_pages, section_max_recent>>
    /\ UNCHANGED <<blog_vars, workflow_vars, location_vars, command_vars>>

\* get_context has returned; the template is rendered with the context.
RenderSection ==
    /\ section_context.view # "none"
    /\ ~section_context.evaluated
    /\ section_context' = Evaluate(section_context, section_pages)
    /\ UNCHANGED <<section_pages, section_max_recent>>
    /\ UNCHANGED <<blog_vars, workflow_vars, location_vars, command_vars>>

\* The page has been sent: the context is dropped.
FinishSection ==
    /\ section_context.evaluated
    /\ section_context' = NoContext
    /\ UNCHANGED <<section_pages, section_max_recent>>
    /\ UNCHANGED <<blog_vars, workflow_vars, location_vars, command_vars>>

SectionNext ==
    \/ PublishSectionPage
    \/ \E v \in MaxRecentValues : SetSectionMaxRecent(v)
    \/ ServeSectionMain
    \/ ServeSectionSubMain
    \/ RenderSection
    \/ FinishSection

SpecSections == Init /\ [][SectionNext]_vars

\* ------------------------------------------------ LocationPage.is_open
MaxSlots == 2
Times == 1 .. 3

\* The rows LocationOperatingHours can hold for the location.
Slots ==
    [day_of_week : Days, time_open : Times, time_close : Times,
     is_closed : BOOLEAN]

\* The fields a lookup on LocationOperatingHours can name.
OperatingHoursFields ==
    {"id", "sort_order", "location", "day_of_week", "time_open",
     "time_close", "is_closed", "holiday_text"}

\* The keyword arguments of the get() of is_open: field, lookup, value.
IsOpenLookups(current_day, current_time) ==
    <<[field |-> "day_of_week", lookup |-> "exact", value |-> current_day],
      [field |-> "time_open", lookup |-> "lte", value |-> current_time],
      [field |-> "time_close_time", lookup |-> "gte", value |-> current_time]>>

Satisfies(row, l) ==
    CASE l.lookup = "exact" -> row[l.field] = l.value
      [] l.lookup = "lte" -> row[l.field] <= l.value
      [] l.lookup = "gte" -> row[l.field] >= l.value

\* QuerySet.get(**lookups): a keyword that names no field is a FieldError
\* before any row is read; otherwise the one matching row, DoesNotExist or
\* MultipleObjectsReturned.
QueryGet(rows, lookups) ==
    IF \E i \in 1 .. Len(lookups) :
           lookups[i].field \notin OperatingHoursFields
    THEN Raise("FieldError", {})
    ELSE LET found == {row \in rows : \A i \in 1 .. Len(lookups) :
                                          Satisfies(row, lookups[i])}
         IN  IF found = {} THEN Raise("DoesNotExist", found)
             ELSE IF Cardinality(found) > 1
                  THEN Raise("MultipleObjectsReturned", found)
                  ELSE Ok(found)

\* is_open: True with a row, False on DoesNotExist; any other exception
\* leaves the method.
is_open(rows, clock) ==
    LET r == QueryGet(rows, IsOpenLookups(clock.day, clock.time))
    IN  IF r.ok THEN Ok(TRUE)
        ELSE IF r.err = "DoesNotExist" THEN Ok(FALSE)
        ELSE Raise(r.err, FALSE)

\* An editor adds a slot to the hours of operation of the location.
AddSlot(slot) ==
    /\ ~is_open_result.called
    /\ slot \notin operating_hours
    /\ Cardinality(operating_hours) < MaxSlots
    /\ operating_hours' = operating_hours \cup {slot}
    /\ UNCHANGED <<now, is_open_result>>
    /\ UNCHANGED <<blog_vars, workflow_vars, section_vars, command_vars>>

RemoveSlot(slot) ==
    /\ ~is_open_result.called
    /\ slot \in operating_hours
    /\ operating_hours' = operating_hours \ {slot}
    /\ UNCHANGED <<now, is_open_result>>
    /\ UNCHANGED <<blog_vars, workflow_vars, section_vars, command_vars>>

\* Time passes: datetime.now() gives another weekday or time of day.
Tick(day, time) ==
    /\ ~is_open_result.called
    /\ now # [day |-> day, time |-> time]
    /\ now' = [day |-> day, time |-> time]
    /\ UNCHANGED <<operating_hours, is_open_result>>
    /\ UNCHANGED <<blog_vars, workflow_vars, section_vars, command_vars>>

CallIsOpen ==
    /\ ~is_open_result.called
    /\ LET r == is_open(operating_hours, now)
       IN  is_open_result' =
               [called |-> TRUE, ok |-> r.ok, err |-> r.err, val |-> r.val]
    /\ UNCHANGED <<operating_hours, now>>
    /\ UNCHANGED <<blog_vars, workflow_vars, section_vars, command_vars>>

\* The caller has the answer (or the exception).
FinishIsOpen ==
    /\ is_open_result.called
    /\ is_open_result' = NotCalled
    /\ UNCHANGED <<operating_hours, now>>
    /\ UNCHANGED <<blog_vars, workflow_vars, section_vars, command_vars>>

LocationNext ==
    \/ \E slot \in Slots : AddSlot(slot)
    \/ \E slot \in Slots : RemoveSlot(slot)
    \/ \E day \in Days, time \in Times : Tick(day, time)
    \/ CallIsOpen
    \/ FinishIsOpen

SpecLocations == Init /\ [][LocationNext]_vars

\* ------------------------------- reset_admin_password, reset_dev_env
ADMIN_PASSWORD == "changeme"
Passwords == {"secret", ADMIN_PASSWORD}
CacheKeys == {"menu", "page"}

\* set_password stores the hash of the password, never the password.
make_password(raw) == <<"pbkdf2_sha256", raw>>

\* Mutant of reset_admin_password: no DEBUG guard.
reset_admin_password_NoGuard(is_debug, table) ==
    IF ~table["admin"].exists THEN Raise("CommandError", table)
    ELSE Ok([table EXCEPT
               !["admin"].password = make_password(ADMIN_PASSWORD)])

\* reset_admin_password.handle: the user table it leaves, or CommandError.
reset_admin_password(is_debug, table) ==
    IF ~is_debug THEN Raise("CommandError", table)
    ELSE IF ~table["admin"].exists THEN Raise("CommandError", table)
    ELSE Ok([table EXCEPT
               !["admin"].password = make_password(ADMIN_PASSWORD)])

\* The site runs with other settings (development or production).
SetDebug(b) ==
    /\ command.name = "none"
    /\ b # debug
    /\ debug' = b
    /\ UNCHANGED <<users, migrated, caches, command>>
    /\ UNCHANGED <<blog_vars, workflow_vars, section_vars, location_vars>>

CreateUser(name, raw) ==
    /\ command.name = "none"
    /\ ~users[name].exists
    /\ users' = [users EXCEPT ![name] =
                    [exists |-> TRUE, password |-> make_password(raw),
                     email |-> name]]
    /\ UNCHANGED <<debug, migrated, caches, command>>
    /\ UNCHANGED <<blog_vars, workflow_vars, section_vars, location_vars>>

DeleteUser(name) ==
    /\ command.name = "none"
    /\ users[name].exists
    /\ users' = [users EXCEPT ![name] = NoUser]
    /\ UNCHANGED <<debug, migrated, caches, command>>
    /\ UNCHANGED <<blog_vars, workflow_vars, section_vars, location_vars>>

\* The site caches something.
CachePut(key) ==
    /\ command.name = "none"
    /\ key \notin caches
    /\ caches' = caches \cup {key}
    /\ UNCHANGED <<debug, users, migrated, command>>
    /\ UNCHANGED <<blog_vars, workflow_vars, section_vars, location_vars>>

\* manage.py reset_admin_password
RunResetAdminPassword ==
    /\ command.name = "none"
    /\ LET r == reset_admin_password(debug, users)
       IN  /\ users' = r.val
           /\ command' =
                  [name |-> "reset_admin_password", pc |-> "exit",
                   error |-> r.err, log |-> <<>>, before |-> users]
    /\ UNCHANGED <<debug, migrated, caches>>
    /\ UNCHANGED <<blog_vars, workflow_vars, section_vars, location_vars>>

\* manage.py reset_dev_env, up to its first call_command: step 1 only
\* writes messages.
StartResetDevEnv ==
    /\ command.name = "none"
    /\ command' = [name |-> "reset_dev_env", pc |-> "reset_db",
                   error |-> "none", log |-> <<>>, before |-> users]
    /\ UNCHANGED <<debug, users, migrated, caches>>
    /\ UNCHANGED <<blog_vars, workflow_vars, section_vars, location_vars>>

\* Mutant of StepResetDb: the DEBUG guard comes before the reset.
StepResetDb_GuardFirst ==
    /\ command.pc = "reset_db"
    /\ IF debug
       THEN /\ users' = [u \in Usernames |-> NoUser]
            /\ migrated' = FALSE
            /\ command' = [command EXCEPT !.pc = "migrate",
                                          !.log = Append(@, "reset_db")]
       ELSE /\ command' = [command EXCEPT !.pc = "exit",
                                          !.error = "CommandError"]
            /\ UNCHANGED <<users, migrated>>
    /\ UNCHANGED <<debug, caches>>
    /\ UNCHANGED <<blog_vars, workflow_vars, section_vars, location_vars>>

\* call_command('reset_db', '--noinput'): the database is dropped.
StepResetDb ==
    /\ command.pc = "reset_db"
    /\ users' = [u \in Usernames |-> NoUser]
    /\ migrated' = FALSE
    /\ command' = [command EXCEPT !.pc = "migrate",
                                  !.log = Append(@, "reset_db")]
    /\ UNCHANGED <<debug, caches>>
    /\ UNCHANGED <<blog_vars, workflow_vars, section_vars, location_vars>>

\* call_command('migrate', interactive=False): the tables are built; the
\* migrations of the project may or may not create the admin user.
StepMigrate(seeded) ==
    /\ command.pc = "migrate"
    /\ migrated' = TRUE
    /\ users' = IF seeded
                THEN [users EXCEPT !["admin"] =
                        [exists |-> TRUE,
                         password |-> make_password("secret"),
                         email |-> "admin"]]
                ELSE users
    /\ command' = [command EXCEPT !.pc = "clear_caches",
                                  !.log = Append(@, "migrate")]
    /\ UNCHANGED <<debug, caches>>
    /\ UNCHANGED <<blog_vars, workflow_vars, section_vars, location_vars>>

\* for cache in caches.all(): cache.clear()  (step 5 only writes messages)
StepClearCaches ==
    /\ command.pc = "clear_caches"
    /\ caches' = {}
    /\ command' = [command EXCEPT !.pc = "reset_admin_password",
                                  !.log = Append(@, "clear_caches")]
    /\ UNCHANGED <<debug, users, migrated>>
    /\ UNCHANGED <<blog_vars, workflow_vars, section_vars, location_vars>>

\* call_command('reset_admin_password'): its CommandError ends reset_dev_env.
StepResetAdminPassword ==
    /\ command.pc = "reset_admin_password"
    /\ LET r == reset_admin_password(debug, users)
       IN  /\ users' = r.val
           /\ command' =
                  [command EXCEPT !.pc = "exit", !.error = r.err,
                                  !.log = Append(@, "reset_admin_password")]
    /\ UNCHANGED <<debug, migrated, caches>>
    /\ UNCHANGED <<blog_vars, workflow_vars, section_vars, location_vars>>

\* The process of the command has ended.
FinishCommand ==
    /\ command.pc = "exit"
    /\ command' = NoCommand
    /\ UNCHANGED <<debug, users, migrated, caches>>
    /\ UNCHANGED <<blog_vars, workflow_vars, section_vars, location_vars>>

CommandNext ==
    \/ \E b \in BOOLEAN : SetDebug(b)
    \/ \E name \in Usernames, raw \in Passwords : CreateUser(name, raw)
    \/ \E name \in Usernames : DeleteUser(name)
    \/ \E key \in CacheKeys : CachePut(key)
    \/ RunResetAdminPassword
    \/ StartResetDevEnv
    \/ StepResetDb
    \/ \E seeded \in BOOLEAN : StepMigrate(seeded)
    \/ StepClearCaches
    \/ StepResetAdminPassword
    \/ FinishCommand

SpecCommands == Init /\ [][CommandNext]_vars

\* --------------------------------------------------------------- claims
\* A listing was built for the request at hand (no redirect).
Listing == request.view # "none" /\ response.status # "redirect"

\* page_size >= 1, the contract of paginate.
ValidPageSize == max_recent >= 1

Requested == PyInt(request.page)

TotalItems == Count(response.pager)

TotalPages == NumPages(response.pager)

\* get_paginator_items returned a token list (and so the view a context).
PagerBuilt == response.status = "rendered"

\* C1 (as claimed): whatever the page parameter (absent, no integer, below 1,
\* beyond the last page, in range) and however many posts, building the
\* listing ends with a page of posts and a pager token list, never an error.
C1_ListingNeverFails ==
    (Listing /\ ValidPageSize) => response.status = "rendered"

\* C2: with the page parameter absent or not an integer literal,
\* get_paginated_posts returns page number 1.
C2_UnparseableIsFirstPage ==
    (Listing /\ ValidPageSize /\ ~Requested.ok) => response.posts.number = 1

C2_Witness ==
    /\ Listing /\ ValidPageSize
    /\ request.page = Param(<<"a", "b", "c">>)
    /\ TotalPages >= 3
    /\ response.posts.number = 1
    /\ Len(response.posts.object_list) = max_recent

\* C3 (as claimed): a page parameter that is an integer below 1 gives page
\* number 1.
C3_BelowOneIsFirstPage ==
    (Listing /\ ValidPageSize /\ Requested.ok /\ Requested.val < 1)
        => response.posts.number = 1

\* C4: a page parameter beyond the last page gives the last page, one
\* within 1..total_pages gives that page.
C4_ClampToLastPage ==
    (Listing /\ ValidPageSize /\ Requested.ok /\ Requested.val >= 1)
        => response.posts.number =
              IF Requested.val > TotalPages THEN TotalPages ELSE Requested.val

C4_Witness ==
    /\ Listing /\ ValidPageSize
    /\ Requested.ok /\ Requested.val > TotalPages
    /\ TotalPages >= 3
    /\ response.posts.number = TotalPages

\* C5: total_pages is the ceiling of total_items / page_size and at least 1;
\* an empty collection has one page, and without a page parameter that page
\* is page 1 with no items.
C5_TotalPagesIsCeiling ==
    (Listing /\ ValidPageSize) =>
        /\ TotalPages >= 1
        /\ TotalPages * max_recent >= TotalItems
        /\ TotalPages > 1 => (TotalPages - 1) * max_recent < TotalItems
        /\ TotalItems = 0 => TotalPages = 1
        /\ (TotalItems = 0 /\ ~request.page.present) =>
              /\ response.posts.number = 1
              /\ response.posts.object_list = <<>>

C5_Witness ==
    /\ Listing /\ ValidPageSize
    /\ max_recent = 3 /\ TotalItems = 7 /\ TotalPages = 3

\* C6: the items of the returned page are the contiguous run of the
\* paginated collection from offset (page_number - 1) * page_size, of length
\* min(page_size, total_items - offset), in the collection's order.
C6_ItemsAreTheSlice ==
    (Listing /\ ValidPageSize) =>
        LET offset == (response.posts.number - 1) * max_recent
            length == Min(max_recent, TotalItems - offset)
            items == response.posts.object_list
        IN  /\ response.posts.number >= 1
            /\ Len(items) = length
            /\ Len(items) <= max_recent
            /\ \A k \in 1 .. Len(items) :
                  items[k] = response.pager.object_list[offset + k]

C6_Witness ==
    /\ Listing
    /\ max_recent = 3 /\ TotalItems = 7
    /\ response.posts.number = 3
    /\ response.posts.object_list = <<response.pager.object_list[7]>>

\* The items of page n of the paginator of the request at hand (n within
\* 1..num_pages, where Django's releases agree).
PageItems(n) ==
    PaginatorPage(response.pager, IntArg(n), FALSE).val.object_list

RECURSIVE SumOfLengths(_)
SumOfLengths(n) ==
    IF n = 0 THEN 0 ELSE Len(PageItems(n)) + SumOfLengths(n - 1)

\* The pages among 1..total_pages that hold item k of the collection.
PagesHolding(k) ==
    {n \in 1 .. TotalPages :
        \E j \in 1 .. Len(PageItems(n)) :
            PageItems(n)[j] = response.pager.object_list[k]}

\* C7: over the pages 1..total_pages the item lists have total_items items
\* in all, and every item of the collection is on exactly one page.
C7_PagesPartition ==
    (Listing /\ ValidPageSize) =>
        /\ SumOfLengths(TotalPages) = TotalItems
        /\ \A k \in 1 .. TotalItems : Cardinality(PagesHolding(k)) = 1

C7_Witness ==
    /\ Listing /\ max_recent = 2
    /\ TotalItems = 7 /\ TotalPages = 4
    /\ SumOfLengths(4) = 7
    /\ Len(PageItems(4)) = 1

\* C8 (as claimed): with page_size < 1 the listing fails with an
\* InvalidConfiguration error and gives no result.
C8_BadPageSizeIsInvalidConfiguration ==
    (Listing /\ ~ValidPageSize) =>
        /\ response.status = "error"
        /\ response.error = "InvalidConfiguration"

\* C9 (as claimed): with total_pages <= max_visible_pages (7 unless the
\* site says more) the pager is 1..total_pages in order, without ellipsis,
\* whatever the page parameter.
C9_ShortPagerIsAllPages ==
    (Listing /\ ValidPageSize /\ TotalPages <= PAGINATION_MIN_PAGES)
        => /\ PagerBuilt
           /\ response.paginator = [i \in 1 .. TotalPages |-> i]

\* C10 (as claimed): get_paginator_items gives a token list, and no two
\* ellipsis tokens (0) in it are next to each other.
C10_NoAdjacentEllipses ==
    (Listing /\ ValidPageSize) =>
        /\ PagerBuilt
        /\ \A i \in 1 .. (Len(response.paginator) - 1) :
              ~(response.paginator[i] = 0 /\ response.paginator[i + 1] = 0)

\* The listing has more pages than the pager shows in full.
LongListing ==
    Listing /\ ValidPageSize /\ TotalPages > PAGINATION_MIN_PAGES

\* The page parameter names a page of the listing.
InRange == Requested.ok /\ Requested.val >= 1 /\ Requested.val <= TotalPages

\* The page numbers the pager shows as such.
Literals == {response.paginator[i] : i \in 1 .. Len(response.paginator)} \ {0}

LowerRun == 1 .. PAGINATION_BOUNDARY

UpperRun == (TotalPages - PAGINATION_BOUNDARY + 1) .. TotalPages

\* The number of ellipsis tokens among the positions from .. to.
Ellipses(from, to) ==
    Cardinality({i \in from .. to : response.paginator[i] = 0})

\* The position of page number n in the pager (0 when it is not shown).
PositionOf(n) ==
    IF n \in Literals
    THEN CHOOSE i \in 1 .. Len(response.paginator) : response.paginator[i] = n
    ELSE 0

\* C11 (as claimed): with more pages than max_visible_pages, the pager shows
\* pages 1..boundary_count, the last boundary_count pages and the current
\* page as page numbers, for every current page in 1..total_pages.
C11_BoundariesAndCurrentShown ==
    (LongListing /\ InRange) =>
        /\ PagerBuilt
        /\ (LowerRun \cup UpperRun \cup {Requested.val}) \subseteq Literals

\* C12 (as claimed): with more pages than max_visible_pages, the pages next
\* to the current page (where they exist) are shown as page numbers.
C12_NeighboursShown ==
    (LongListing /\ InRange) =>
        /\ PagerBuilt
        /\ Requested.val > 1 => (Requested.val - 1) \in Literals
        /\ Requested.val < TotalPages => (Requested.val + 1) \in Literals

\* The current page lies between the boundary runs and next to neither.
StrictlyInside ==
    /\ InRange
    /\ PAGINATION_BOUNDARY + 1 < Requested.val
    /\ Requested.val < TotalPages - PAGINATION_BOUNDARY

\* C13 (as claimed): with the current page between the boundary runs and
\* next to neither, the pager has exactly two ellipsis tokens, one between
\* the lower run and the current page and one between the current page and
\* the upper run.
C13_TwoEllipsesAroundCurrent ==
    (LongListing /\ StrictlyInside) =>
        /\ PagerBuilt
        /\ LET n == Len(response.paginator)
               c == PositionOf(Requested.val)
               lo == PositionOf(PAGINATION_BOUNDARY)
               hi == PositionOf(TotalPages - PAGINATION_BOUNDARY + 1)
           IN  /\ 0 < lo /\ lo < c /\ c < hi
               /\ Ellipses(1, n) = 2
               /\ Ellipses(lo, c) = 1
               /\ Ellipses(c, hi) = 1

\* C14 (as claimed): in the output every run of skipped pages is one
\* ellipsis token where the run was: two page numbers next to each other are
\* consecutive, an ellipsis stands between two page numbers that are not,
\* and the pager starts with page 1 and ends with the last page.
C14_OneEllipsisPerGap ==
    (Listing /\ ValidPageSize) =>
        /\ PagerBuilt
        /\ LET pg == response.paginator
               n == Len(response.paginator)
           IN  /\ n >= 1
               /\ pg[1] = 1
               /\ pg[n] = TotalPages
               /\ \A i \in 1 .. (n - 1) :
                     (pg[i] # 0 /\ pg[i + 1] # 0) => pg[i + 1] = pg[i] + 1
               /\ \A i \in 2 .. (n - 1) :
                     pg[i] = 0 =>
                         /\ pg[i - 1] # 0
                         /\ pg[i + 1] # 0
                         /\ pg[i + 1] > pg[i - 1] + 1

\* C15 (as claimed): with current_page = boundary_count + 1 the pager is
\* 1..current_page, one ellipsis, the upper run; with current_page =
\* total_pages - boundary_count it is the lower run, one ellipsis,
\* current_page..total_pages.
C15_CurrentNextToBoundary ==
    /\ (LongListing /\ InRange /\ Requested.val = PAGINATION_BOUNDARY + 1) =>
          response.paginator =
              <<1, 2, 3, 4, 0, TotalPages - 2, TotalPages - 1, TotalPages>>
    /\ (LongListing /\ InRange
          /\ Requested.val = TotalPages - PAGINATION_BOUNDARY) =>
          response.paginator =
              <<1, 2, 3, 0, TotalPages - 3, TotalPages - 2,
                TotalPages - 1, TotalPages>>

\* The page parameter is an integer that names no page of the listing.
OutOfRange ==
    Requested.ok /\ (Requested.val < 1 \/ Requested.val > TotalPages)

\* C16 (as claimed): a current page outside 1..total_pages makes
\* get_paginator_items fail with InvalidConfiguration.
C16_OutOfRangeIsInvalidConfiguration ==
    (Listing /\ ValidPageSize /\ OutOfRange) =>
        /\ response.status = "error"
        /\ response.error = "InvalidConfiguration"

\* C18 (as claimed): whatever the site setting, a listing of at most 7
\* pages is shown, and without an ellipsis.
C18_EffectiveMaxVisible ==
    (Listing /\ ValidPageSize /\ TotalPages <= PAGINATION_MIN_PAGES) =>
        /\ PagerBuilt
        /\ 0 \notin {response.paginator[i] :
                       i \in 1 .. Len(response.paginator)}

\* C19 (as claimed): the pager display is a list of tokens, each 0 or a page
\* number in 1..total_pages, the page numbers increasing strictly.
C19_TokensWellFormed ==
    (Listing /\ ValidPageSize) =>
        /\ PagerBuilt
        /\ LET pg == response.paginator
           IN  /\ \A i \in 1 .. Len(pg) : pg[i] \in 0 .. TotalPages
               /\ \A i, j \in 1 .. Len(pg) :
                     (i < j /\ pg[i] # 0 /\ pg[j] # 0) => pg[i] < pg[j]

\* The posts on the pages 1..total_pages of the paginator of the request.
ListedPosts ==
    UNION {{PageItems(n)[j] : j \in 1 .. Len(PageItems(n))} :
              n \in 1 .. TotalPages}

\* C22 (as claimed): on the blog landing page the promo post, the newest
\* published post, is on no page of the paginated list.
C22_PromoNotListed ==
    (Listing /\ ValidPageSize /\ request.view = "get_context"
       /\ response.show_promo)
        => response.promo \notin ListedPosts

\* C23 (as claimed): tag_archive without a slug or with a slug of no Tag
\* redirects (with a message only for a given slug) and renders no listing;
\* with the Tag it renders a listing whose pages hold all live posts with
\* the tag, the newest included, and no promo.
C23_TagArchive ==
    request.view = "tag_archive" =>
        /\ ~TagExists(request.slug) =>
              /\ response.status = "redirect"
              /\ response.message = (request.slug # NoSlug)
              /\ response.posts = NoPage
              /\ response.paginator = <<>>
        /\ TagExists(request.slug) =>
              /\ response.status # "redirect"
              /\ ~response.message
              /\ ~response.show_promo /\ response.promo = 0
              /\ ValidPageSize => PagerBuilt
              /\ ValidPageSize => ListedPosts = tagged
              /\ ValidPageSize => TotalItems = Cardinality(tagged)

\* C25 (as claimed): the page get_paginator_items takes as the current one
\* is the page whose posts get_paginated_posts returned, also for a page
\* parameter below 1 or beyond the last page.
C25_PagerPageIsPostsPage ==
    (LongListing /\ Requested.ok) =>
        /\ PagerBuilt
        /\ ClampPage(Requested.val, TotalPages) = response.posts.number

\* C26 (as claimed): with more pages than max_visible_pages the pager has
\* between 7 and 2 * PAGINATION_BOUNDARY + 3 = 9 tokens, whatever total_pages
\* is.
C26_LongPagerLength ==
    LongListing =>
        /\ Len(response.paginator) >= 2 * PAGINATION_BOUNDARY + 1
        /\ Len(response.paginator) <= 2 * PAGINATION_BOUNDARY + 3

\* C21: for a user u and a task assigned to a, u can access the editor iff
\* u == a, the page is locked for u iff u != a, get_actions gives approve,
\* reject and cancel iff u == a and nothing otherwise, and the task states u
\* can moderate are the states in progress of this task iff u == a and none
\* otherwise.
C21_OnlyAssignedUser ==
    moderation.call = "inspect" =>
        LET same == moderation.user = task_user
        IN  /\ moderation.can_access = same
            /\ moderation.locked = ~same
            /\ same => [i \in 1 .. Len(moderation.actions) |->
                            moderation.actions[i][1]]
                           = <<"approve", "reject", "cancel">>
            /\ ~same => moderation.actions = <<>>
            /\ same => moderation.can_moderate =
                           {p \in WorkflowPages :
                              /\ task_states[p].status = "in_progress"
                              /\ task_states[p].task = "user_approval"}
            /\ ~same => moderation.can_moderate = {}

C21_Witness ==
    /\ moderation.call = "inspect"
    /\ moderation.user = task_user
    /\ moderation.can_moderate = {"about"}
    /\ task_states["contact"].status = "in_progress"
    /\ ~moderation.locked

\* C24: on_action with 'cancel' cancels the whole workflow state in the name
\* of the acting user; any other action is what Task.on_action does with
\* it; the acting user need not be the user of the task.
C24_OnAction ==
    moderation.call = "on_action" =>
        LET before == moderation.before
            after == task_states[moderation.page]
            active == before.status = "in_progress"
        IN  /\ moderation.action_name = "cancel" =>
                /\ moderation.ok =
                       (before.workflow \in {"in_progress", "needs_changes"})
                /\ moderation.ok => after.workflow = "cancelled"
                /\ (moderation.ok /\ active) =>
                       /\ after.status = "cancelled"
                       /\ after.finished_by = moderation.user
            /\ moderation.action_name = "approve" =>
                /\ moderation.ok = active
                /\ active => /\ after.status = "approved"
                             /\ after.finished_by = moderation.user
            /\ moderation.action_name = "reject" =>
                /\ moderation.ok = active
                /\ active => /\ after.status = "rejected"
                             /\ after.finished_by = moderation.user
            /\ moderation.action_name = "unlock" =>
                moderation.ok /\ after = before
            /\ ~moderation.ok => after = before

C24_Witness ==
    /\ moderation.call = "on_action"
    /\ moderation.action_name = "cancel"
    /\ moderation.user # task_user
    /\ task_user \in Users
    /\ moderation.ok
    /\ task_states[moderation.page].workflow = "cancelled"
    /\ task_states[moderation.page].finished_by = moderation.user

\* C27 (as claimed): with n live children and max_recent >= 1, SectionMain
\* lists the newest min(max_recent, n) of them; SectionSubMain has the newest
\* as promo and lists the next min(max_recent, n - 1), never the promo;
\* neither lists more than max_recent. With max_recent = 0 all (remaining)
\* children are listed.
C27_SectionLists ==
    section_context.evaluated =>
        LET children == section_context.read
            n == Len(section_context.read)
            limit == section_context.max_recent
            recent == section_context.recent_posts
            listed == {recent[i] : i \in 1 .. Len(recent)}
        IN  /\ (section_context.view = "SectionMain" /\ limit >= 1) =>
                   recent = SubSeq(children, 1, Min(limit, n))
            /\ (section_context.view = "SectionMain" /\ limit = 0) =>
                   recent = children
            /\ (section_context.view = "SectionSubMain" /\ n >= 1) =>
                   /\ section_context.promo \notin listed
                   /\ limit >= 1 =>
                        recent = SubSeq(children, 2, 1 + Min(limit, n - 1))
                   /\ limit = 0 => recent = Tail(children)
            /\ (section_context.view = "SectionSubMain" /\ n = 0) =>
                   recent = <<>>
            /\ limit >= 1 => Len(recent) <= limit

\* C28 (as claimed): is_open returns a boolean for every set of slots and
\* never raises: True exactly when a slot of the current weekday has
\* time_open <= current time <= time_close, False otherwise.
C28_IsOpenIsBoolean ==
    is_open_result.called =>
        /\ is_open_result.ok
        /\ is_open_result.val =
               (\E slot \in operating_hours :
                   /\ slot.day_of_week = now.day
                   /\ slot.time_open <= now.time
                   /\ now.time <= slot.time_close)

\* C29: reset_admin_password changes the password of 'admin' only with DEBUG
\* true and the user present; otherwise it ends in CommandError and changes
\* no user; on success nothing but the password of 'admin' is written.
C29_ResetAdminPassword ==
    (command.name = "reset_admin_password" /\ command.pc = "exit") =>
        LET possible == debug /\ command.before["admin"].exists
        IN  /\ (command.error = "none") = possible
            /\ ~possible => /\ command.error = "CommandError"
                            /\ users = command.before
            /\ possible =>
                 /\ users["admin"].password = make_password(ADMIN_PASSWORD)
                 /\ users["admin"].email = command.before["admin"].email
                 /\ users["admin"].exists
                 /\ users["editor"] = command.before["editor"]

C29_Witness ==
    /\ command.name = "reset_admin_password" /\ command.pc = "exit"
    /\ command.error = "none"
    /\ command.before["admin"].password = make_password("secret")
    /\ users["admin"].password = make_password(ADMIN_PASSWORD)
    /\ users["editor"].exists

\* C30: reset_dev_env calls reset_db, migrate, the clearing of the caches and
\* reset_admin_password in this order; DEBUG is read in the last step only,
\* so with DEBUG false it ends in CommandError with the database reset and
\* migrated.
C30_ResetDevEnvOrder ==
    command.name = "reset_dev_env" =>
        LET order == <<"reset_db", "migrate", "clear_caches",
                       "reset_admin_password">>
            done == Len(command.log)
        IN  /\ done <= 4
            /\ command.log = SubSeq(order, 1, done)
            /\ command.pc = IF done = 4 THEN "exit" ELSE order[done + 1]
            /\ done < 4 => command.error = "none"
            /\ done >= 1 => ~users["editor"].exists
            /\ done = 1 => ~migrated
            /\ done >= 2 => migrated
            /\ done >= 3 => caches = {}
            /\ (command.pc = "exit" /\ ~debug) =>
                   /\ command.error = "CommandError"
                   /\ done = 4
                   /\ migrated

C30_Witness ==
    /\ command.name = "reset_dev_env" /\ command.pc = "exit"
    /\ ~debug
    /\ command.error = "CommandError"
    /\ command.before["editor"].exists
    /\ ~users["editor"].exists
    /\ users["admin"].exists
    /\ migrated

====
